---- MODULE Spec2Model ----
(***************************************************************************)
(* A model of html_to_xlsx_v2.py: the encoding resolver, the table         *)
(* locator, the block segmenter and the participant classifier of          *)
(* parse_html_file, the aggregation of process_files, the batch driver     *)
(* run_processing and the macOS application delegate.                      *)
(*                                                                         *)
(* Bytes are the integers 0..255.  A text (a Python str) is a sequence of  *)
(* Unicode code points.  Python indices are 0-based; a Python index k is   *)
(* the TLA+ index k + 1, and the variables i and step hold Python values.  *)
(***************************************************************************)
EXTENDS Integers, Sequences, FiniteSets, TLC

Min(a, b) == IF a < b THEN a ELSE b

Max(a, b) == IF a > b THEN a ELSE b

\* The concatenation of a sequence of sequences.
RECURSIVE Flatten(_)
Flatten(ss) == IF ss = <<>> THEN <<>> ELSE Head(ss) \o Flatten(Tail(ss))

\* s occurs in t as a contiguous substring (Python: s in t).
Contains(t, s) ==
    \E k \in 1..(Len(t) - Len(s) + 1) : SubSeq(t, k, k + Len(s) - 1) = s

(***************************************************************************)
(* Python str methods, on the code points the encodings below can yield.   *)
(***************************************************************************)

\* str.isdigit() is true of the ASCII digits and of the superscript digits
\* U+00B2, U+00B3, U+00B9 (digits that are not decimal); other scripts'
\* digits are outside the texts of this model.
DecimalChars == 48..57

DigitChars == DecimalChars \cup {178, 179, 185}

isdigit(t) == Len(t) > 0 /\ \A k \in 1..Len(t) : t[k] \in DigitChars

\* int(t) for a text with isdigit(t): the value, or -1 where Python raises
\* ValueError (a digit that is not decimal).
RECURSIVE DecimalValue(_)
DecimalValue(t) ==
    IF t = <<>> THEN 0
    ELSE 10 * DecimalValue(SubSeq(t, 1, Len(t) - 1)) + (t[Len(t)] - 48)

int(t) == IF \A k \in 1..Len(t) : t[k] \in DecimalChars THEN DecimalValue(t) ELSE -1

\* str.lower() on Basic Latin, Latin-1 and the Cyrillic block U+0400..U+042F.
LowerChar(c) ==
    IF (c >= 65 /\ c <= 90) \/ (c >= 192 /\ c <= 222 /\ c # 215) \/ (c >= 1040 /\ c <= 1071)
    THEN c + 32
    ELSE IF c >= 1024 /\ c <= 1039 THEN c + 80 ELSE c

lower(t) == [k \in 1..Len(t) |-> LowerChar(t[k])]

\* Whitespace that str.strip() removes, among the code points of the model.
Whitespace == {9, 10, 11, 12, 13, 28, 29, 30, 31, 32, 133, 160}

\* get_text(strip=True) of a cell holding one text node.
strip(t) ==
    LET keep == {k \in 1..Len(t) : t[k] \notin Whitespace}
    IN  IF keep = {} THEN <<>>
        ELSE SubSeq(t, CHOOSE k \in keep : \A m \in keep : k <= m,
                       CHOOSE k \in keep : \A m \in keep : k >= m)

(***************************************************************************)
(* bytes.decode(enc), strict: [ok, text].  ok = FALSE is UnicodeDecodeError.*)
(***************************************************************************)

\* cp1251, bytes 0x80..0xBF (0x98 is undefined: -1); 0xC0..0xFF are U+0410..U+044F.
Cp1251High ==
    <<1026, 1027, 8218, 1107, 8222, 8230, 8224, 8225, 8364, 8240, 1033, 8249,
      1034, 1036, 1035, 1039, 1106, 8216, 8217, 8220, 8221, 8226, 8211, 8212,
      -1, 8482, 1113, 8250, 1114, 1116, 1115, 1119, 160, 1038, 1118, 1032,
      164, 1168, 166, 167, 1025, 169, 1028, 171, 172, 173, 174, 1031, 176,
      177, 1030, 1110, 1169, 181, 182, 183, 1105, 8470, 1108, 187, 1112,
      1029, 1109, 1111>>

Cp1251Char(b) ==
    IF b < 128 THEN b ELSE IF b >= 192 THEN 1040 + (b - 192) ELSE Cp1251High[b - 127]

\* koi8-r, bytes 0x80..0xFF: every byte is defined.
Koi8rHigh ==
    <<9472, 9474, 9484, 9488, 9492, 9496, 9500, 9508, 9516, 9524, 9532, 9600,
      9604, 9608, 9612, 9616, 9617, 9618, 9619, 8992, 9632, 8729, 8730, 8776,
      8804, 8805, 160, 8993, 176, 178, 183, 247, 9552, 9553, 9554, 1105, 9555,
      9556, 9557, 9558, 9559, 9560, 9561, 9562, 9563, 9564, 9565, 9566, 9567,
      9568, 9569, 1025, 9570, 9571, 9572, 9573, 9574, 9575, 9576, 9577, 9578,
      9579, 9580, 169, 1102, 1072, 1073, 1094, 1076, 1077, 1092, 1075, 1093,
      1080, 1081, 1082, 1083, 1084, 1085, 1086, 1087, 1103, 1088, 1089, 1090,
      1091, 1078, 1074, 1100, 1099, 1079, 1096, 1101, 1097, 1095, 1098, 1070,
      1040, 1041, 1062, 1044, 1045, 1060, 1043, 1061, 1048, 1049, 1050, 1051,
      1052, 1053, 1054, 1055, 1071, 1056, 1057, 1058, 1059, 1046, 1042, 1068,
      1067, 1047, 1064, 1069, 1065, 1063, 1066>>

Koi8rChar(b) == IF b < 128 THEN b ELSE Koi8rHigh[b - 127]

\* UTF-8: the length of the sequence a lead byte opens (0: not a lead byte).
Utf8Len(b) ==
    IF b < 128 THEN 1
    ELSE IF b >= 194 /\ b <= 223 THEN 2
    ELSE IF b >= 224 /\ b <= 239 THEN 3
    ELSE IF b >= 240 /\ b <= 244 THEN 4
    ELSE 0

Utf8Cont(b) == b >= 128 /\ b <= 191

\* The range of the second byte after lead byte b (no overlong form, no
\* surrogate, nothing above U+10FFFF).
Utf8Second(b, c) ==
    IF b = 224 THEN c >= 160 /\ c <= 191
    ELSE IF b = 237 THEN c >= 128 /\ c <= 159
    ELSE IF b = 240 THEN c >= 144 /\ c <= 191
    ELSE IF b = 244 THEN c >= 128 /\ c <= 143
    ELSE Utf8Cont(c)

\* A well-formed sequence starts at position k of raw.
Utf8ValidAt(raw, k) ==
    LET n == Utf8Len(raw[k])
    IN  /\ n > 0
        /\ k + n - 1 <= Len(raw)
        /\ n > 1 => Utf8Second(raw[k], raw[k + 1])
        /\ \A m \in 2..(n - 1) : Utf8Cont(raw[k + m])

\* The continuation byte at position k belongs to a sequence opened before it.
Utf8Covered(raw, k) ==
    \E j \in Max(1, k - 3)..(k - 1) :
        /\ ~Utf8Cont(raw[j])
        /\ Utf8Len(raw[j]) > k - j
        /\ \A m \in (j + 1)..(k - 1) : Utf8Cont(raw[m])

Utf8Char(raw, k) ==
    LET n == Utf8Len(raw[k])
    IN  IF n = 1 THEN raw[k]
        ELSE IF n = 2 THEN (raw[k] - 192) * 64 + (raw[k + 1] - 128)
        ELSE IF n = 3 THEN (raw[k] - 224) * 4096 + (raw[k + 1] - 128) * 64 + (raw[k + 2] - 128)
        ELSE (raw[k] - 240) * 262144 + (raw[k + 1] - 128) * 4096
                 + (raw[k + 2] - 128) * 64 + (raw[k + 3] - 128)

DecodeUtf8(raw) ==
    LET valid == \A k \in 1..Len(raw) :
                     IF Utf8Cont(raw[k]) THEN Utf8Covered(raw, k) ELSE Utf8ValidAt(raw, k)
        marks == [k \in 1..Len(raw) |-> IF Utf8Cont(raw[k]) THEN -1 ELSE Utf8Char(raw, k)]
    IN  IF valid THEN [ok |-> TRUE, text |-> SelectSeq(marks, LAMBDA c : c >= 0)]
        ELSE [ok |-> FALSE, text |-> <<>>]

DecodeCp1251(raw) ==
    IF \E k \in 1..Len(raw) : Cp1251Char(raw[k]) = -1
    THEN [ok |-> FALSE, text |-> <<>>]
    ELSE [ok |-> TRUE, text |-> [k \in 1..Len(raw) |-> Cp1251Char(raw[k])]]

DecodeKoi8r(raw) == [ok |-> TRUE, text |-> [k \in 1..Len(raw) |-> Koi8rChar(raw[k])]]

DecodeLatin1(raw) == [ok |-> TRUE, text |-> raw]

decode(raw, enc) ==
    CASE enc = "cp1251" -> DecodeCp1251(raw)
      [] enc = "utf-8" -> DecodeUtf8(raw)
      [] enc = "koi8-r" -> DecodeKoi8r(raw)
      [] enc = "latin-1" -> DecodeLatin1(raw)

\* content.count('�')
CountReplacement(text) == Len(SelectSeq(text, LAMBDA c : c = 65533))

(***************************************************************************)
(* A path on disk: [exists, dir, readable, head, tables]; readable: open() *)
(* succeeds (it fails on a directory).  head.bytes are the bytes before    *)
(* the first table; head.found and head.says1251 describe the              *)
(* header for the properties and are never read by the operators that      *)
(* model code.  A table is a sequence of rows [silver, cells], a cell the  *)
(* bytes between <td> and </td>.  The markup itself is ASCII, which all    *)
(* four encodings decode alike, so the markup tree of the decoded content  *)
(* is the tree of the file with every cell decoded.                        *)
(***************************************************************************)
TagTable == <<60, 116, 97, 98, 108, 101, 62>>

TagTableEnd == <<60, 47, 116, 97, 98, 108, 101, 62>>

TagTr == <<60, 116, 114, 62>>

TagTrSilver ==
    <<60, 116, 114, 32, 98, 103, 99, 111, 108, 111, 114, 61, 34, 115, 105,
      108, 118, 101, 114, 34, 62>>

TagTrEnd == <<60, 47, 116, 114, 62>>

TagTd == <<60, 116, 100, 62>>

TagTdEnd == <<60, 47, 116, 100, 62>>

RowBytes(row) ==
    (IF row.silver THEN TagTrSilver ELSE TagTr)
        \o Flatten([k \in 1..Len(row.cells) |-> TagTd \o row.cells[k] \o TagTdEnd])
        \o TagTrEnd

TableBytes(table) ==
    TagTable \o Flatten([k \in 1..Len(table) |-> RowBytes(table[k])]) \o TagTableEnd

\* f.read() of the file opened 'rb'.
raw_data(f) == f.head.bytes \o Flatten([k \in 1..Len(f.tables) |-> TableBytes(f.tables[k])])

(***************************************************************************)
(* parse_html_file: the encoding resolver.                                 *)
(***************************************************************************)
HeaderBytes == 1000

MaxReplacement == 10

CharsetWindows1251 ==
    <<99, 104, 97, 114, 115, 101, 116, 61, 119, 105, 110, 100, 111, 119, 115,
      45, 49, 50, 53, 49>>

CharsetCp1251 == <<99, 104, 97, 114, 115, 101, 116, 61, 99, 112, 49, 50, 53, 49>>

CharsetUtf8 == <<99, 104, 97, 114, 115, 101, 116, 61, 117, 116, 102, 45, 56>>

CharsetKoi8r == <<99, 104, 97, 114, 115, 101, 116, 61, 107, 111, 105, 56, 45, 114>>

\* raw_data[:1000].decode('ascii', errors='ignore').lower()
header(raw) ==
    lower(SelectSeq(SubSeq(raw, 1, Min(HeaderBytes, Len(raw))), LAMBDA b : b < 128))

\* The if/elif chain on the header; "" is None.
declared_encoding(raw) ==
    LET h == header(raw)
    IN  IF Contains(h, CharsetWindows1251) \/ Contains(h, CharsetCp1251) THEN "cp1251"
        ELSE IF Contains(h, CharsetUtf8) THEN "utf-8"
        ELSE IF Contains(h, CharsetKoi8r) THEN "koi8-r"
        ELSE ""

FallbackEncodings == <<"cp1251", "utf-8", "koi8-r", "latin-1">>

build_encodings_to_try(raw) ==
    LET encoding == declared_encoding(raw)
    IN  (IF encoding # "" THEN <<encoding>> ELSE <<>>) \o FallbackEncodings

\* content before the loop; content.set = FALSE is None.  The decoded text
\* is decode(raw, content.enc).text and is not kept in the record.
NoContent == [set |-> FALSE, enc |-> ""]

\* The iteration without the test of the replacement markers: any decoding
\* that succeeds ends the loop.
try_encoding_any_success(raw, enc, cur) ==
    LET d == decode(raw, enc)
    IN  IF d.ok
        THEN [content |-> [set |-> TRUE, enc |-> enc], brk |-> TRUE]
        ELSE [content |-> cur, brk |-> FALSE]

\* One iteration of "for enc in encodings_to_try": the content after it and
\* whether the loop breaks.
try_encoding(raw, enc, cur) ==
    LET d == decode(raw, enc)
    IN  IF d.ok
        THEN [content |-> [set |-> TRUE, enc |-> enc],
              brk |-> CountReplacement(d.text) < MaxReplacement]
        ELSE [content |-> cur, brk |-> FALSE]

RECURSIVE resolve_from(_, _, _, _)
resolve_from(raw, encs, k, cur) ==
    IF k > Len(encs) THEN cur
    ELSE LET t == try_encoding(raw, encs[k], cur)
         IN  IF t.brk THEN t.content ELSE resolve_from(raw, encs, k + 1, t.content)

resolve_encoding(raw) == resolve_from(raw, build_encodings_to_try(raw), 1, NoContent)

(***************************************************************************)
(* parse_html_file: step detection, segmentation, classification.  cells   *)
(* is the canonical row: the text of each td, stripped when it is read.    *)
(***************************************************************************)
MinRowCells == 10

DefaultStep == 10

StepScanFrom == 8

StepScanStop == 15

MinBlockCells == 4

TeamIndex == 3

YearLen == 4

YearMin == 1900

YearMax == 2100

One == <<49>>

Two == <<50>>

Colon == <<58>>

\* 'Сошел'
Retired == <<1057, 1086, 1096, 1077, 1083>>

\* ['н/ф', 'в/к', 'дск', 'снят', 'снт', 'дисквал']
StatusMarkers ==
    { <<1085, 47, 1092>>, <<1074, 47, 1082>>, <<1076, 1089, 1082>>,
      <<1089, 1085, 1103, 1090>>, <<1089, 1085, 1090>>,
      <<1076, 1080, 1089, 1082, 1074, 1072, 1083>> }

\* 'пїЅ': the bytes of U+FFFD in UTF-8 read as cp1251.
GarbledMarker == <<1087, 1111, 1029>>

\* cells[k].get_text(strip=True), k a Python index inside cells.
get_text(cells, k) == strip(cells[k + 1])

\* for i in range(8, min(15, len(cells))): the first i whose text is '2'.
RECURSIVE step_scan(_, _, _)
step_scan(cells, k, stop) ==
    IF k >= stop THEN DefaultStep
    ELSE IF get_text(cells, k) = Two THEN k
    ELSE step_scan(cells, k + 1, stop)

\* The scan without its break: the last match wins.
RECURSIVE step_scan_no_break(_, _, _)
step_scan_no_break(cells, k, stop) ==
    IF k >= stop THEN DefaultStep
    ELSE LET rest == step_scan_no_break(cells, k + 1, stop)
         IN  IF get_text(cells, k) = Two /\ rest = DefaultStep THEN k ELSE rest

detect_step_no_break(cells) ==
    step_scan_no_break(cells, StepScanFrom, Min(StepScanStop, Len(cells)))

detect_step(cells) == step_scan(cells, StepScanFrom, Min(StepScanStop, Len(cells)))

\* The backward scan without the test for a year of birth.
RECURSIVE place_scan_no_year(_, _)
place_scan_no_year(participant_cells, j) ==
    IF j <= TeamIndex THEN [kind |-> "none", place |-> <<>>]
    ELSE
      LET cell_text == get_text(participant_cells, j)
      IN  IF cell_text = <<>> \/ Contains(cell_text, Colon)
          THEN place_scan_no_year(participant_cells, j - 1)
          ELSE IF isdigit(cell_text)
          THEN [kind |-> "place", place |-> cell_text]
          ELSE IF \E x \in StatusMarkers : Contains(lower(cell_text), x)
          THEN [kind |-> "place", place |-> Retired]
          ELSE IF Contains(cell_text, GarbledMarker)
          THEN [kind |-> "place", place |-> Retired]
          ELSE place_scan_no_year(participant_cells, j - 1)

\* The outcome of the backward scan "for j in range(len - 1, 3, -1)":
\* kind "place" with the place, "none" (place is None at the end of the
\* scan), or "ValueError" (int() of a 4-character digit string that is not
\* decimal).
RECURSIVE place_scan(_, _)
place_scan(participant_cells, j) ==
    IF j <= TeamIndex THEN [kind |-> "none", place |-> <<>>]
    ELSE
      LET cell_text == get_text(participant_cells, j)
          four == isdigit(cell_text) /\ Len(cell_text) = YearLen
      IN  IF cell_text = <<>> \/ Contains(cell_text, Colon)
          THEN place_scan(participant_cells, j - 1)
          ELSE IF four /\ int(cell_text) = -1
          THEN [kind |-> "ValueError", place |-> <<>>]
          ELSE IF four /\ YearMin <= int(cell_text) /\ int(cell_text) <= YearMax
          THEN place_scan(participant_cells, j - 1)
          ELSE IF isdigit(cell_text)
          THEN [kind |-> "place", place |-> cell_text]
          ELSE IF \E x \in StatusMarkers : Contains(lower(cell_text), x)
          THEN [kind |-> "place", place |-> Retired]
          ELSE IF Contains(cell_text, GarbledMarker)
          THEN [kind |-> "place", place |-> Retired]
          ELSE place_scan(participant_cells, j - 1)

\* The loop test without the break on remaining_cells < 4.
loop_continues_no_break(cells, i) == i < Len(cells)

\* while i < len(cells), with the break on remaining_cells < 4.
loop_continues(cells, i) == i < Len(cells) /\ ~(Len(cells) - i < MinBlockCells)

\* The body of one iteration of the while loop, entered at index i:
\* kind "skip" (first cell not a digit string), "pair", "nothing" (no
\* team), or the exception raised (an IndexError for a block too short for
\* the cell it reads).
segment_block(cells, step, i) ==
    LET remaining_cells == Len(cells) - i
        current_block_size == Min(step, remaining_cells)
        participant_cells == SubSeq(cells, i + 1, i + current_block_size)
        none == [kind |-> "nothing", team |-> <<>>, place |-> <<>>]
    IN  IF Len(participant_cells) < 1 THEN [none EXCEPT !.kind = "IndexError"]
        ELSE IF ~isdigit(get_text(participant_cells, 0)) THEN [none EXCEPT !.kind = "skip"]
        ELSE IF Len(participant_cells) <= TeamIndex THEN [none EXCEPT !.kind = "IndexError"]
        ELSE
          LET team == get_text(participant_cells, TeamIndex)
              scan == place_scan(participant_cells, Len(participant_cells) - 1)
          IN  IF scan.kind = "ValueError" THEN [none EXCEPT !.kind = "ValueError"]
              ELSE IF team = <<>> THEN none
              ELSE [kind |-> "pair", team |-> team,
                    place |-> IF scan.kind = "none" THEN Retired ELSE scan.place]

Exceptions == {"IndexError", "ValueError"}

\* The whole while loop from index i, results so far acc.
RECURSIVE segment_row(_, _, _, _)
segment_row(cells, step, i, acc) ==
    IF ~loop_continues(cells, i) THEN [raised |-> FALSE, results |-> acc]
    ELSE LET b == segment_block(cells, step, i)
         IN  IF b.kind \in Exceptions THEN [raised |-> TRUE, results |-> acc]
             ELSE segment_row(cells, step, i + step,
                              IF b.kind = "pair" THEN Append(acc, <<b.team, b.place>>)
                              ELSE acc)

(***************************************************************************)
(* parse_html_file: the table locator and the whole function.              *)
(***************************************************************************)

\* The text of every td of a row of the decoded content.
row_texts(row, enc) == [k \in 1..Len(row.cells) |-> decode(row.cells[k], enc).text]

\* table.find('tr', bgcolor='silver')
has_header_row(table) == \E k \in 1..Len(table) : table[k].silver

\* The first row with at least 10 cells whose first cell is '1' (0: none).
data_row_index(table, enc) ==
    LET hits == {k \in 1..Len(table) :
                    /\ Len(table[k].cells) >= MinRowCells
                    /\ strip(decode(table[k].cells[1], enc).text) = One}
    IN  IF hits = {} THEN 0 ELSE CHOOSE k \in hits : \A m \in hits : k <= m

RECURSIVE parse_tables(_, _, _, _)
parse_tables(tables, enc, t, acc) ==
    IF t > Len(tables) THEN [raised |-> FALSE, results |-> acc]
    ELSE IF ~has_header_row(tables[t]) \/ data_row_index(tables[t], enc) = 0
    THEN parse_tables(tables, enc, t + 1, acc)
    ELSE LET cells == row_texts(tables[t][data_row_index(tables[t], enc)], enc)
             r == segment_row(cells, detect_step(cells), 0, acc)
         IN  IF r.raised THEN r ELSE parse_tables(tables, enc, t + 1, r.results)

\* parse_html_file(filepath) of an existing path: the results returned, or
\* raised = TRUE when an exception leaves the function (open() of a path
\* that cannot be opened for reading, or an exception of the loop).
parse_html_file(f) ==
    IF ~f.readable THEN [raised |-> TRUE, results |-> <<>>]
    ELSE LET content == resolve_encoding(raw_data(f))
         IN  IF ~content.set THEN [raised |-> FALSE, results |-> <<>>]
             ELSE parse_tables(f.tables, content.enc, 1, <<>>)

(***************************************************************************)
(* State.                                                                  *)
(***************************************************************************)
VARIABLES
    \* parse_html_file, the encoding resolver
    file,              \* the file being read
    encodings_to_try,  \* the candidate list
    encPos,            \* the position of the for loop in it
    content,           \* content ([set, enc]; set = FALSE is None)
    pcEnc,
    \* parse_html_file, one canonical row
    cells,             \* the texts of the row's td cells
    step,
    i,
    results,           \* the (team, place) pairs appended so far
    iters,             \* iterations of the while loop entered so far
    last,              \* the outcome of the last iteration (segment_block)
    pc,
    \* run_processing and process_files
    filepaths,
    fileIdx,           \* the position of "for filepath in filepaths"
    pending,           \* the pairs of the current file not yet appended
    teams_data,        \* defaultdict(list): a function on the teams seen
    pcRun,
    xlsxCalls,         \* the mappings handed to create_xlsx, in order
    folderMade,        \* get_output_folder created a folder
    errorNotes,        \* calls of notify_error
    \* the macOS application delegate
    _files,
    _processed,
    argv,              \* sys.argv[1:]
    openBatch,         \* the file names extend() has not appended yet
    deliveries,        \* callbacks delivered so far
    pcTimer,           \* the timer thread, in checkAndProcess
    appFilepaths,      \* the local filepaths of checkAndProcess
    atSnapshot,        \* _files when list(self._files) copied it
    calls,             \* the arguments of every run_processing call
    runResult,         \* how the call ended
    terminated         \* NSApp.terminate_ was called

encVars == <<file, encodings_to_try, encPos, content, pcEnc>>

rowVars == <<cells, step, i, results, iters, last, pc>>

runVars ==
    <<filepaths, fileIdx, pending, teams_data, pcRun, xlsxCalls, folderMade, errorNotes>>

appVars ==
    <<_files, _processed, argv, openBatch, deliveries, pcTimer, appFilepaths,
      atSnapshot, calls, runResult, terminated>>

vars == <<encVars, rowVars, runVars, appVars>>

\* All sequences over S of length lo..hi.
SeqsOf(S, lo, hi) == UNION {[1..n -> S] : n \in lo..hi}

NoFile ==
    [exists |-> FALSE, dir |-> FALSE, readable |-> FALSE,
     head |-> [bytes |-> <<>>, found |-> "", says1251 |-> FALSE], tables |-> <<>>]

NoBlock == [kind |-> "nothing", team |-> <<>>, place |-> <<>>]

\* The parts of the state a specification does not use.
EncIdle ==
    /\ file = NoFile
    /\ encodings_to_try = <<>>
    /\ encPos = 0
    /\ content = NoContent
    /\ pcEnc = "idle"

RowIdle ==
    /\ cells = <<>>
    /\ step = 0
    /\ i = 0
    /\ results = <<>>
    /\ iters = 0
    /\ last = NoBlock
    /\ pc = "idle"

RunIdle ==
    /\ filepaths = <<>>
    /\ fileIdx = 0
    /\ pending = <<>>
    /\ teams_data = [t \in {} |-> <<>>]
    /\ pcRun = "idle"
    /\ xlsxCalls = <<>>
    /\ folderMade = FALSE
    /\ errorNotes = 0

AppIdle ==
    /\ _files = <<>>
    /\ _processed = FALSE
    /\ argv = <<>>
    /\ openBatch = <<>>
    /\ deliveries = 0
    /\ pcTimer = "idle"
    /\ appFilepaths = <<>>
    /\ atSnapshot = <<>>
    /\ calls = <<>>
    /\ runResult = "none"
    /\ terminated = FALSE

(***************************************************************************)
(* The encoding resolver, one loop iteration per step.                     *)
(***************************************************************************)
MaxEncCells == 2

Pad(n) == [k \in 1..n |-> 32]

\* n times the three bytes of U+FFFD in UTF-8.
Rep(n) == Flatten([k \in 1..n |-> <<239, 191, 189>>])

\* <meta charset=windows-1251>
MetaWindows1251 ==
    <<60, 109, 101, 116, 97, 32, 99, 104, 97, 114, 115, 101, 116, 61, 119,
      105, 110, 100, 111, 119, 115, 45, 49, 50, 53, 49, 62>>

\* <meta content="text/html; charset=cp1251">
MetaCp1251 ==
    <<60, 109, 101, 116, 97, 32, 99, 111, 110, 116, 101, 110, 116, 61, 34,
      116, 101, 120, 116, 47, 104, 116, 109, 108, 59, 32, 99, 104, 97, 114,
      115, 101, 116, 61, 99, 112, 49, 50, 53, 49, 34, 62>>

\* <META CHARSET=UTF-8>
MetaUtf8Upper ==
    <<60, 77, 69, 84, 65, 32, 67, 72, 65, 82, 83, 69, 84, 61, 85, 84, 70, 45, 56, 62>>

\* <meta charset=koi8-r>
MetaKoi8r ==
    <<60, 109, 101, 116, 97, 32, 99, 104, 97, 114, 115, 101, 116, 61, 107,
      111, 105, 56, 45, 114, 62>>

\* <meta charset="windows-1251">: the quoted form, which the header test misses
MetaQuoted1251 ==
    <<60, 109, 101, 116, 97, 32, 99, 104, 97, 114, 115, 101, 116, 61, 34, 119,
      105, 110, 100, 111, 119, 115, 45, 49, 50, 53, 49, 34, 62>>

\* <meta charset=utf-8><meta charset=windows-1251>
MetaUtf8Then1251 ==
    <<60, 109, 101, 116, 97, 32, 99, 104, 97, 114, 115, 101, 116, 61, 117,
      116, 102, 45, 56, 62, 60, 109, 101, 116, 97, 32, 99, 104, 97, 114, 115,
      101, 116, 61, 119, 105, 110, 100, 111, 119, 115, 45, 49, 50, 53, 49, 62>>

\* <html>
HtmlTag == <<60, 104, 116, 109, 108, 62>>

\* The headers of the input files.  found: the charset token the first
\* 1000 bytes hold ("" for none); says1251: the header declares
\* windows-1251 or cp1251.
EncHeads ==
    { [bytes |-> HtmlTag, found |-> "", says1251 |-> FALSE],
      [bytes |-> MetaWindows1251, found |-> "cp1251", says1251 |-> TRUE],
      [bytes |-> MetaCp1251, found |-> "cp1251", says1251 |-> TRUE],
      [bytes |-> MetaUtf8Upper, found |-> "utf-8", says1251 |-> FALSE],
      [bytes |-> MetaKoi8r, found |-> "koi8-r", says1251 |-> FALSE],
      [bytes |-> MetaQuoted1251, found |-> "", says1251 |-> TRUE],
      [bytes |-> MetaUtf8Then1251, found |-> "cp1251", says1251 |-> TRUE],
      \* the token ends with byte 1000, starts after byte 1000, is cut by it
      [bytes |-> Pad(HeaderBytes - Len(CharsetUtf8)) \o CharsetUtf8,
       found |-> "utf-8", says1251 |-> FALSE],
      [bytes |-> Pad(HeaderBytes) \o CharsetUtf8, found |-> "", says1251 |-> FALSE],
      [bytes |-> Pad(HeaderBytes - Len(CharsetUtf8) + 1) \o CharsetUtf8,
       found |-> "", says1251 |-> FALSE] }

\* Cell contents: '1'; 'СОШЕЛ' in cp1251; 'н/ф' in UTF-8; the byte 0x98,
\* which neither cp1251 nor UTF-8 decodes; U+FFFD in UTF-8, once and nine times.
EncCells ==
    { <<49>>, <<209, 206, 216, 197, 203>>, <<208, 189, 47, 209, 132>>,
      <<152>>, Rep(1), Rep(9) }

EncFiles(maxCells) ==
    { [exists |-> TRUE, dir |-> FALSE, readable |-> TRUE, head |-> h,
       tables |-> << <<[silver |-> TRUE, cells |-> cs]>> >>] :
        h \in EncHeads, cs \in SeqsOf(EncCells, 1, maxCells) }

EncInit ==
    /\ file \in EncFiles(MaxEncCells)
    /\ encodings_to_try = <<>>
    /\ encPos = 0
    /\ content = NoContent
    /\ pcEnc = "read"
    /\ RowIdle /\ RunIdle /\ AppIdle

\* Lines 119-137: read the file, scan the header, build the candidate list.
ReadAndSniff ==
    /\ pcEnc = "read"
    /\ encodings_to_try' = build_encodings_to_try(raw_data(file))
    /\ encPos' = 1
    /\ content' = NoContent
    /\ pcEnc' = "loop"
    /\ UNCHANGED <<file, rowVars, runVars, appVars>>

\* Lines 138-148: one iteration of the for loop; after a break or the last
\* candidate, the test of content.
TryEncoding ==
    /\ pcEnc = "loop"
    /\ encPos <= Len(encodings_to_try)
    /\ LET t == try_encoding(raw_data(file), encodings_to_try[encPos], content)
       IN  /\ content' = t.content
           /\ IF t.brk \/ encPos = Len(encodings_to_try)
              THEN /\ pcEnc' = IF t.content.set THEN "decoded" ELSE "unreadable"
                   /\ encPos' = encPos
              ELSE /\ pcEnc' = "loop"
                   /\ encPos' = encPos + 1
    /\ UNCHANGED <<file, encodings_to_try, rowVars, runVars, appVars>>

EncNext == ReadAndSniff \/ TryEncoding

SpecEnc == EncInit /\ [][EncNext]_vars

\* C6: the candidates are the charset token found in the first 1000 bytes
\* (if any), then cp1251, utf-8, koi8-r, latin-1; the resolver ends with the
\* first candidate that decodes without error into fewer than 10 U+FFFD,
\* with latin-1 if there is none; and a file that declares windows-1251 and
\* is valid cp1251 is decoded as cp1251.
C6_FirstAcceptableCandidate ==
    LET raw == raw_data(file)
        expected ==
            (IF file.head.found # "" THEN <<file.head.found>> ELSE <<>>)
                \o <<"cp1251", "utf-8", "koi8-r", "latin-1">>
        good == {k \in 1..Len(expected) :
                    /\ decode(raw, expected[k]).ok
                    /\ CountReplacement(decode(raw, expected[k]).text) < 10}
    IN  /\ pcEnc \in {"loop", "decoded", "unreadable"} => encodings_to_try = expected
        /\ pcEnc \in {"decoded", "unreadable"} =>
              /\ pcEnc = "decoded"
              /\ content.set
              /\ content.enc = IF good = {} THEN "latin-1"
                               ELSE expected[CHOOSE k \in good : \A m \in good : k <= m]
              /\ (file.head.says1251 /\ DecodeCp1251(raw).ok) => content.enc = "cp1251"

\* C6, witness: a file that declares utf-8 and is valid UTF-8 with 10 or
\* more U+FFFD was decoded by a later candidate.
C6_Witness ==
    /\ pcEnc = "decoded"
    /\ file.head.found = "utf-8"
    /\ DecodeUtf8(raw_data(file)).ok
    /\ CountReplacement(DecodeUtf8(raw_data(file)).text) >= 10
    /\ content.enc = "cp1251"

(***************************************************************************)
(* One canonical row: step detection, then the while loop, one iteration   *)
(* per step.                                                               *)
(***************************************************************************)
MaxCells == 20

MaxMarks == 2

MaxTail == 2

\* 'x': a cell that is neither empty, a digit string nor a status.
Filler == <<120>>

\* ' 2' and ''
MarkTexts == { <<32, 50>>, <<>> }

\* The sequences of n cells, all 'x' but for at most k of them.
RECURSIVE MarkedCells(_, _)
MarkedCells(n, k) ==
    IF n = 0 THEN { <<>> }
    ELSE { Append(r, Filler) : r \in MarkedCells(n - 1, k) }
             \cup (IF k = 0 THEN {}
                   ELSE { Append(r, t) : r \in MarkedCells(n - 1, k - 1), t \in MarkTexts })

\* Rows of 10 to maxCells cells: '1', then 'x' cells but for at most
\* maxMarks of them.
SparseRows(maxCells, maxMarks) ==
    UNION { { <<One>> \o r : r \in MarkedCells(n - 1, maxMarks) } :
              n \in MinRowCells..maxCells }

\* '', '7', ' 2', '1998', '2101', '0:45', 'СОШЕЛ', 'Сошел', 'н/ф', 'Снят',
\* 'DNF', 'пїЅ', '1²34'
TailTexts ==
    { <<>>, <<55>>, <<32, 50>>, <<49, 57, 57, 56>>, <<50, 49, 48, 49>>,
      <<48, 58, 52, 53>>, <<1057, 1054, 1064, 1045, 1051>>,
      <<1057, 1086, 1096, 1077, 1083>>, <<1085, 47, 1092>>,
      <<1057, 1085, 1103, 1090>>, <<68, 78, 70>>, <<1087, 1111, 1029>>,
      <<49, 178, 51, 52>> }

\* Rows of 10 cells: ordinal '1', bib, name, a team ('' or 'A'), then cells
\* that are all '' or all '5', and maxTail last cells of any text.
ClassifyRows(maxTail) ==
    { <<One, Filler, Filler, team>>
          \o [k \in 1..(MinRowCells - MinBlockCells - maxTail) |-> mid] \o tail :
        team \in { <<>>, <<65>> },
        mid \in { <<>>, <<53>> },
        tail \in [1..maxTail -> TailTexts] }

RowInit ==
    /\ cells \in SparseRows(MaxCells, MaxMarks) \cup ClassifyRows(MaxTail)
    /\ step = 0
    /\ i = 0
    /\ results = <<>>
    /\ iters = 0
    /\ last = NoBlock
    /\ pc = "detect"
    /\ EncIdle /\ RunIdle /\ AppIdle

\* Lines 173-180.
DetectStep ==
    /\ pc = "detect"
    /\ step' = detect_step(cells)
    /\ i' = 0
    /\ pc' = "loop"
    /\ UNCHANGED <<cells, results, iters, last, encVars, runVars, appVars>>

\* Lines 181-223: one iteration of the while loop.
SegmentBlock ==
    /\ pc = "loop"
    /\ loop_continues(cells, i)
    /\ LET b == segment_block(cells, step, i)
       IN  /\ last' = b
           /\ iters' = iters + 1
           /\ IF b.kind \in Exceptions
              THEN pc' = "raised" /\ UNCHANGED <<i, results>>
              ELSE /\ pc' = "loop"
                   /\ i' = i + step
                   /\ results' = IF b.kind = "pair"
                                 THEN Append(results, <<b.team, b.place>>)
                                 ELSE results
    /\ UNCHANGED <<cells, step, encVars, runVars, appVars>>

\* Lines 181-185: the loop ends.
SegmentEnd ==
    /\ pc = "loop"
    /\ ~loop_continues(cells, i)
    /\ pc' = "done"
    /\ UNCHANGED <<cells, step, i, results, iters, last, encVars, runVars, appVars>>

RowNext == DetectStep \/ SegmentBlock \/ SegmentEnd

SpecRow == RowInit /\ [][RowNext]_vars

\* The first block of the row, and the stripped text of its cell j (a
\* Python index).
FirstBlock == SubSeq(cells, 1, Min(step, Len(cells)))

FirstBlockText(j) == strip(FirstBlock[j + 1])

FirstBlockTeam == FirstBlockText(3)

\* A 4-digit decimal string with a value in 1900..2100.
IsYearText(t) ==
    /\ Len(t) = 4
    /\ \A k \in 1..4 : t[k] \in 48..57
    /\ DecimalValue(t) >= 1900
    /\ DecimalValue(t) <= 2100

\* 'сошел'
SoshelLower == <<1089, 1086, 1096, 1077, 1083>>

\* C4 (as claimed): in a block with a digit first cell and a team, when the
\* backward scan reaches a cell that reads 'СОШЕЛ' in any casing (every
\* later cell is empty, a time or a year of birth), the block yields
\* (team, 'Сошел'), whatever the cells before it hold.
C4_SoshelIsRetired ==
    (pc \in {"loop", "done", "raised"} /\ iters = 1) =>
        \A j \in 4..(Len(FirstBlock) - 1) :
            ( /\ isdigit(FirstBlockText(0))
              /\ FirstBlockTeam # <<>>
              /\ lower(FirstBlockText(j)) = SoshelLower
              /\ \A m \in (j + 1)..(Len(FirstBlock) - 1) :
                    \/ FirstBlockText(m) = <<>>
                    \/ Contains(FirstBlockText(m), <<58>>)
                    \/ IsYearText(FirstBlockText(m)) )
            => /\ last.kind = "pair"
               /\ last.team = FirstBlockTeam
               /\ last.place = Retired

\* C5 (as claimed): in a block with a digit first cell and a team, a year
\* of birth at an index >= 4 with no digit string after it makes the place
\* 'Сошел'.
C5_YearThenNothingIsRetired ==
    (pc \in {"loop", "done", "raised"} /\ iters = 1) =>
        \A j \in 4..(Len(FirstBlock) - 1) :
            ( /\ isdigit(FirstBlockText(0))
              /\ FirstBlockTeam # <<>>
              /\ IsYearText(FirstBlockText(j))
              /\ \A m \in (j + 1)..(Len(FirstBlock) - 1) : ~isdigit(FirstBlockText(m)) )
            => /\ last.kind = "pair"
               /\ last.place = Retired

\* C5 (amended): in a block with a digit first cell and a team, if a cell
\* at an index >= 4 is a year of birth and no cell at an index >= 4 is a
\* digit string other than a year of birth, the place is 'Сошел'; and the
\* place of a pair is never a year of birth.
C5_OnlyYearsIsRetired ==
    (pc \in {"loop", "done", "raised"} /\ iters = 1) =>
        /\ ( /\ isdigit(FirstBlockText(0))
             /\ FirstBlockTeam # <<>>
             /\ \E j \in 4..(Len(FirstBlock) - 1) : IsYearText(FirstBlockText(j))
             /\ \A m \in 4..(Len(FirstBlock) - 1) :
                   isdigit(FirstBlockText(m)) => IsYearText(FirstBlockText(m)) )
           => /\ last.kind = "pair"
              /\ last.team = FirstBlockTeam
              /\ last.place = Retired
        /\ last.kind = "pair" => ~IsYearText(last.place)

\* C5, witness: the last cell is a year of birth, every other cell from
\* index 4 is empty or a year, and the place defaulted to 'Сошел'.
C5_Witness ==
    /\ pc = "done"
    /\ iters = 1
    /\ FirstBlockTeam # <<>>
    /\ IsYearText(FirstBlockText(Len(FirstBlock) - 1))
    /\ \A m \in 4..(Len(FirstBlock) - 1) :
          FirstBlockText(m) = <<>> \/ IsYearText(FirstBlockText(m))
    /\ last.kind = "pair"
    /\ last.place = Retired

\* C7: once detected, the step is the smallest index in 8..14, below the
\* row's length, of a cell that reads '2', and 10 if there is none; it is
\* in 8..14 and, the row being fixed, the same in every later state.
C7_StepIsFirstTwo ==
    pc \in {"loop", "done", "raised"} =>
        LET hits == {k \in 8..14 : k < Len(cells) /\ strip(cells[k + 1]) = <<50>>}
        IN  /\ step = IF hits = {} THEN 10 ELSE CHOOSE k \in hits : \A m \in hits : k <= m
            /\ step \in 8..14
            /\ step >= 4

\* C7, witness: two cells in 8..14 read '2' and the step is the first.
C7_Witness ==
    /\ pc = "done"
    /\ step < Len(cells)
    /\ strip(cells[step + 1]) = <<50>>
    /\ \E k \in (step + 1)..14 : k < Len(cells) /\ strip(cells[k + 1]) = <<50>>

FileA_Table ==
    << [silver |-> TRUE, cells |-> << <<78>>, <<84, 101, 97, 109>> >>],
       [silver |-> FALSE,
        cells |-> << <<49>>, <<55>>, <<73, 118, 97, 110, 111, 118>>, <<65>>,
                     <<49, 57, 57, 56>>, <<48, 58, 52, 53>>, <<>>, <<>>, <<>>,
                     <<32, 49, 32>>,
                     <<50>>, <<56>>, <<80, 101, 116, 114, 111, 118>>, <<66>>,
                     <<50, 48, 48, 49>>, <<>>, <<>>, <<>>, <<>>, <<237, 47, 244>> >>],
       [silver |-> FALSE,
        cells |-> << <<49>>, <<55>>, <<73, 118, 97, 110, 111, 118>>, <<65>>,
                     <<49, 57, 57, 56>>, <<48, 58, 52, 53>>, <<>>, <<>>, <<>>,
                     <<32, 49, 32>>,
                     <<50>>, <<56>>, <<80, 101, 116, 114, 111, 118>>, <<66>>,
                     <<50, 48, 48, 49>>, <<>>, <<>>, <<>>, <<>>, <<237, 47, 244>> >>] >>

\* b.htm, UTF-8: two results tables, both with team 'A' (places '2' and
\* '3'), and a table without a silver header row.
FileB_First ==
    << [silver |-> TRUE, cells |-> << <<78>> >>],
       [silver |-> FALSE,
        cells |-> << <<49>>, <<51>>, <<83, 105, 100, 111, 114, 111, 118>>, <<65>>,
                     <<49, 57, 57, 57>>, <<48, 58, 53, 48>>, <<>>, <<50>>, <<>>, <<>> >>] >>

FileB_Second ==
    << [silver |-> TRUE, cells |-> << <<78>> >>],
       [silver |-> FALSE,
        cells |-> << <<49>>, <<51>>, <<83, 105, 100, 111, 114, 111, 118>>, <<65>>,
                     <<49, 57, 57, 57>>, <<48, 58, 53, 49>>, <<>>, <<>>, <<51>>, <<>> >>] >>

FileB_Plain ==
    << [silver |-> FALSE,
        cells |-> << <<49>>, <<52>>, <<78, 111, 98, 111, 100, 121>>, <<67>>,
                     <<>>, <<>>, <<>>, <<>>, <<>>, <<57>> >>] >>

\* odd.htm, UTF-8: team 'B', whose last cell reads '1²34'.
FileOdd_Table ==
    << [silver |-> TRUE, cells |-> << <<78>> >>],
       [silver |-> FALSE,
        cells |-> << <<49>>, <<53>>, <<79, 100, 100>>, <<66>>, <<>>, <<>>,
                     <<>>, <<>>, <<>>, <<49, 194, 178, 51, 52>> >>] >>

Paths == {"missing.htm", "folder", "empty.htm", "a.htm", "b.htm", "odd.htm"}

\* The file system: what each path names.
FS ==
    [p \in Paths |->
        CASE p = "missing.htm" -> NoFile
          [] p = "folder" -> [NoFile EXCEPT !.exists = TRUE, !.dir = TRUE]
          [] p = "empty.htm" ->
                [exists |-> TRUE, dir |-> FALSE, readable |-> TRUE,
                 head |-> [bytes |-> HtmlTag, found |-> "", says1251 |-> FALSE],
                 tables |-> <<>>]
          [] p = "a.htm" ->
                [exists |-> TRUE, dir |-> FALSE, readable |-> TRUE,
                 head |-> [bytes |-> MetaWindows1251, found |-> "cp1251", says1251 |-> TRUE],
                 tables |-> <<FileA_Table>>]
          [] p = "b.htm" ->
                [exists |-> TRUE, dir |-> FALSE, readable |-> TRUE,
                 head |-> [bytes |-> MetaUtf8Upper, found |-> "utf-8", says1251 |-> FALSE],
                 tables |-> <<FileB_First, FileB_Plain, FileB_Second>>]
          [] p = "odd.htm" ->
                [exists |-> TRUE, dir |-> FALSE, readable |-> TRUE,
                 head |-> [bytes |-> MetaUtf8Upper, found |-> "utf-8", says1251 |-> FALSE],
                 tables |-> <<FileOdd_Table>>]]

(***************************************************************************)
(* process_files and run_processing.                                       *)
(***************************************************************************)
MaxFiles == 3

\* defaultdict(list)()
EmptyTeams == [t \in {} |-> <<>>]

\* The test that takes every path for an existing one.
path_exists_always(p) == TRUE

\* os.path.exists(filepath)
path_exists(p) == FS[p].exists

\* The append that replaces the team's list.
append_place_replacing(td, team, place) ==
    [t \in DOMAIN td \cup {team} |-> IF t = team THEN <<place>> ELSE td[t]]

\* teams_data[team].append(place)
append_place(td, team, place) ==
    [t \in DOMAIN td \cup {team} |->
        IF t = team THEN (IF team \in DOMAIN td THEN Append(td[team], place) ELSE <<place>>)
        ELSE td[t]]

\* for team, place in results: teams_data[team].append(place)
RECURSIVE append_all(_, _)
append_all(td, pairs) ==
    IF pairs = <<>> THEN td
    ELSE append_all(append_place(td, Head(pairs)[1], Head(pairs)[2]), Tail(pairs))

\* process_files(filepaths) from position k with the mapping td:
\* [raised, teams_data], raised when an exception leaves the function.
RECURSIVE process_files_from(_, _, _)
process_files_from(paths, k, td) ==
    IF k > Len(paths) THEN [raised |-> FALSE, teams_data |-> td]
    ELSE IF ~path_exists(paths[k]) THEN process_files_from(paths, k + 1, td)
    ELSE LET r == parse_html_file(FS[paths[k]])
         IN  IF r.raised THEN [raised |-> TRUE, teams_data |-> td]
             ELSE process_files_from(paths, k + 1, append_all(td, r.results))

process_files(paths) == process_files_from(paths, 1, EmptyTeams)

RunInit ==
    /\ filepaths \in SeqsOf(Paths, 1, MaxFiles)
    /\ fileIdx = 0
    /\ pending = <<>>
    /\ teams_data = EmptyTeams
    /\ pcRun = "start"
    /\ xlsxCalls = <<>>
    /\ folderMade = FALSE
    /\ errorNotes = 0
    /\ EncIdle /\ RowIdle /\ AppIdle

\* Lines 323-327 and 237: run_processing logs and calls process_files.
RP_Start ==
    /\ pcRun = "start"
    /\ teams_data' = EmptyTeams
    /\ fileIdx' = 1
    /\ pcRun' = "files"
    /\ UNCHANGED <<filepaths, pending, xlsxCalls, folderMade, errorNotes,
                   encVars, rowVars, appVars>>

\* Lines 239-245: the next path of the for loop: skipped when it does not
\* exist, parsed otherwise; an exception of parse_html_file leaves
\* process_files and run_processing.
PF_File ==
    /\ pcRun = "files"
    /\ pending = <<>>
    /\ fileIdx <= Len(filepaths)
    /\ IF ~path_exists(filepaths[fileIdx])
       THEN /\ fileIdx' = fileIdx + 1
            /\ UNCHANGED <<pending, pcRun>>
       ELSE LET r == parse_html_file(FS[filepaths[fileIdx]])
            IN  IF r.raised
                THEN /\ pcRun' = "pf_raised"
                     /\ UNCHANGED <<pending, fileIdx>>
                ELSE /\ pending' = r.results
                     /\ fileIdx' = fileIdx + 1
                     /\ UNCHANGED pcRun
    /\ UNCHANGED <<filepaths, teams_data, xlsxCalls, folderMade, errorNotes,
                   encVars, rowVars, appVars>>

\* Lines 247-248: one pair of the current file.
PF_Append ==
    /\ pcRun = "files"
    /\ pending # <<>>
    /\ teams_data' = append_place(teams_data, Head(pending)[1], Head(pending)[2])
    /\ pending' = Tail(pending)
    /\ UNCHANGED <<filepaths, fileIdx, pcRun, xlsxCalls, folderMade, errorNotes,
                   encVars, rowVars, appVars>>

\* Line 250: return teams_data.
PF_Return ==
    /\ pcRun = "files"
    /\ pending = <<>>
    /\ fileIdx > Len(filepaths)
    /\ pcRun' = "check"
    /\ UNCHANGED <<filepaths, fileIdx, pending, teams_data, xlsxCalls, folderMade,
                   errorNotes, encVars, rowVars, appVars>>

\* Lines 329-331: nothing extracted.
RP_NoData ==
    /\ pcRun = "check"
    /\ DOMAIN teams_data = {}
    /\ errorNotes' = errorNotes + 1
    /\ pcRun' = "returned"
    /\ UNCHANGED <<filepaths, fileIdx, pending, teams_data, xlsxCalls, folderMade,
                   encVars, rowVars, appVars>>

\* Lines 333-338: get_output_folder makes the folder beside the first
\* file, on the desktop or in the home directory, or raises when the last
\* os.makedirs fails.
RP_OutputFolder ==
    /\ pcRun = "check"
    /\ DOMAIN teams_data # {}
    /\ \E made \in BOOLEAN :
          /\ folderMade' = made
          /\ pcRun' = IF made THEN "xlsx" ELSE "raised"
    /\ UNCHANGED <<filepaths, fileIdx, pending, teams_data, xlsxCalls, errorNotes,
                   encVars, rowVars, appVars>>

\* Lines 340-346: create_xlsx(teams_data, output_path); wb.save may raise.
RP_CreateXlsx ==
    /\ pcRun = "xlsx"
    /\ xlsxCalls' = Append(xlsxCalls, teams_data)
    /\ \E saved \in BOOLEAN : pcRun' = IF saved THEN "returned" ELSE "raised"
    /\ UNCHANGED <<filepaths, fileIdx, pending, teams_data, folderMade, errorNotes,
                   encVars, rowVars, appVars>>

RunNext ==
    \/ RP_Start
    \/ PF_File
    \/ PF_Append
    \/ PF_Return
    \/ RP_NoData
    \/ RP_OutputFolder
    \/ RP_CreateXlsx

SpecRun == RunInit /\ [][RunNext]_vars

IsPrefix(a, b) == Len(a) <= Len(b) /\ SubSeq(b, 1, Len(a)) = a

\* process_files has returned (run_processing may have gone on).
ProcessFilesReturned == pcRun \in {"check", "xlsx", "returned", "raised"}

\* The pairs of the input files in processing order: the files in list
\* order, each file's pairs in table and block order; nothing for a path
\* that is missing or whose parsing raises.
PairsInOrder ==
    Flatten([k \in 1..Len(filepaths) |->
                IF FS[filepaths[k]].exists
                THEN parse_html_file(FS[filepaths[k]]).results
                ELSE <<>>])

\* The places of a team in a sequence of pairs, in order.
PlacesOf(team, pairs) ==
    LET own == SelectSeq(pairs, LAMBDA pr : pr[1] = team)
    IN  [k \in 1..Len(own) |-> own[k][2]]

\* The mapping that holds exactly the pairs, in order.
MappingOf(pairs) ==
    [t \in {pairs[k][1] : k \in 1..Len(pairs)} |-> PlacesOf(t, pairs)]

\* C1: process_files on a list ends as process_files on the list without
\* its missing paths does: with the same mapping, and raising or not alike.
C1_MissingFilesAreSkipped ==
    LET present == SelectSeq(filepaths, LAMBDA p : FS[p].exists)
        ref == process_files(present)
    IN  /\ ProcessFilesReturned => (~ref.raised /\ teams_data = ref.teams_data)
        /\ pcRun = "pf_raised" => (ref.raised /\ teams_data = ref.teams_data)

\* C1, witness: a missing path between two files that both yield pairs.
C1_Witness ==
    /\ pcRun = "check"
    /\ filepaths = <<"a.htm", "missing.htm", "b.htm">>
    /\ teams_data[<<65>>] = << <<49>>, <<50>>, <<51>> >>

\* C2: every step keeps each team and extends its list at the end only; and
\* when process_files returns, each team's list is the team's places in
\* file order, then table and block order, repeats included.
C2_AppendOnly ==
    /\ [][\A t \in DOMAIN teams_data :
              /\ t \in DOMAIN teams_data'
              /\ IsPrefix(teams_data[t], teams_data'[t])]_vars
    /\ [](ProcessFilesReturned => teams_data = MappingOf(PairsInOrder))

\* C2, witness: a team with places from two files and from two tables of
\* one file.
C2_Witness ==
    /\ pcRun = "check"
    /\ filepaths = <<"b.htm", "a.htm", "b.htm">>
    /\ teams_data[<<65>>] = << <<50>>, <<51>>, <<49>>, <<50>>, <<51>> >>

\* C3 (as claimed): no exception leaves process_files, and it returns the
\* pairs of the files that could be read and parsed.
C3_NoFailurePropagates ==
    /\ pcRun # "pf_raised"
    /\ ProcessFilesReturned => teams_data = MappingOf(PairsInOrder)

\* C8 (as claimed): run_processing ends without raising; it has called
\* create_xlsx once, with the mapping of all the files, if a pair was
\* extracted, and otherwise has called notify_error and made no folder and
\* no call of create_xlsx.
C8_ReportedOnceIffData ==
    /\ Len(xlsxCalls) <= 1
    /\ xlsxCalls # <<>> =>
          (fileIdx > Len(filepaths) /\ pending = <<>> /\ xlsxCalls[1] = teams_data)
    /\ pcRun \in {"returned", "raised", "pf_raised"} =>
          IF DOMAIN teams_data # {}
          THEN Len(xlsxCalls) = 1
          ELSE /\ pcRun = "returned"
               /\ errorNotes = 1
               /\ ~folderMade
               /\ xlsxCalls = <<>>

(***************************************************************************)
(* The macOS application delegate.  The callbacks run on the main thread,  *)
(* checkAndProcess on the thread of threading.Timer.                       *)
(***************************************************************************)
MaxDeliveries == 2

\* sys.argv[1:] of the launch.
ArgvChoices ==
    { <<>>, <<"missing.htm">>, <<"a.htm">>, <<"folder", "b.htm", "missing.htm">> }

\* What one callback delivers: a list (application_openFiles_) or a name
\* (application_openFile_).
Batches == { <<"a.htm">>, <<"b.htm", "folder">>, <<"empty.htm", "missing.htm">> }

SingleFiles == {"a.htm", "empty.htm"}

\* os.path.isfile(arg)
isfile(p) == FS[p].exists /\ ~FS[p].dir

\* The list without the test os.path.isfile.
argv_files_unfiltered(args) == args

\* [arg for arg in sys.argv[1:] if os.path.isfile(arg)]
argv_files(args) == SelectSeq(args, isfile)

\* How run_processing(paths) can end: "returned" or "raised".
run_processing_outcomes(paths) ==
    LET r == process_files(paths)
    IN  IF r.raised THEN {"raised"}
        ELSE IF DOMAIN r.teams_data = {} THEN {"returned"}
        ELSE {"returned", "raised"}

AppInit ==
    /\ _files = <<>>
    /\ _processed = FALSE
    /\ argv \in ArgvChoices
    /\ openBatch = <<>>
    /\ deliveries = 0
    /\ pcTimer = "launching"
    /\ appFilepaths = <<>>
    /\ atSnapshot = <<>>
    /\ calls = <<>>
    /\ runResult = "none"
    /\ terminated = FALSE
    /\ EncIdle /\ RowIdle /\ RunIdle

\* Lines 380-383: applicationDidFinishLaunching_ starts the timer.
DidFinishLaunching ==
    /\ pcTimer = "launching"
    /\ openBatch = <<>>
    /\ pcTimer' = "timer"
    /\ UNCHANGED <<_files, _processed, argv, openBatch, deliveries, appFilepaths,
                   atSnapshot, calls, runResult, terminated, encVars, rowVars, runVars>>

\* Lines 385-388: application_openFiles_ begins self._files.extend(filenames).
OpenFiles ==
    /\ ~terminated
    /\ openBatch = <<>>
    /\ deliveries < MaxDeliveries
    /\ \E batch \in Batches : openBatch' = batch
    /\ deliveries' = deliveries + 1
    /\ UNCHANGED <<_files, _processed, argv, pcTimer, appFilepaths, atSnapshot,
                   calls, runResult, terminated, encVars, rowVars, runVars>>

\* Line 388: extend appends the next name of the list it iterates.
ExtendNext ==
    /\ ~terminated
    /\ openBatch # <<>>
    /\ _files' = Append(_files, Head(openBatch))
    /\ openBatch' = Tail(openBatch)
    /\ UNCHANGED <<_processed, argv, deliveries, pcTimer, appFilepaths, atSnapshot,
                   calls, runResult, terminated, encVars, rowVars, runVars>>

\* Lines 390-394: application_openFile_.
OpenFile ==
    /\ ~terminated
    /\ openBatch = <<>>
    /\ deliveries < MaxDeliveries
    /\ \E name \in SingleFiles : _files' = Append(_files, name)
    /\ deliveries' = deliveries + 1
    /\ UNCHANGED <<_processed, argv, openBatch, pcTimer, appFilepaths, atSnapshot,
                   calls, runResult, terminated, encVars, rowVars, runVars>>

\* Lines 396-400: the timer fires; checkAndProcess tests and sets _processed.
CheckProcessed ==
    /\ pcTimer = "timer"
    /\ IF _processed
       THEN pcTimer' = "returned" /\ UNCHANGED _processed
       ELSE pcTimer' = "copy" /\ _processed' = TRUE
    /\ UNCHANGED <<_files, argv, openBatch, deliveries, appFilepaths, atSnapshot,
                   calls, runResult, terminated, encVars, rowVars, runVars>>

\* Line 402: filepaths = list(self._files).
CopyFiles ==
    /\ pcTimer = "copy"
    /\ appFilepaths' = _files
    /\ atSnapshot' = _files
    /\ pcTimer' = "argv"
    /\ UNCHANGED <<_files, _processed, argv, openBatch, deliveries, calls,
                   runResult, terminated, encVars, rowVars, runVars>>

\* Lines 405-412: the files of sys.argv when no file was delivered.
ArgvFallback ==
    /\ pcTimer = "argv"
    /\ appFilepaths' = IF appFilepaths = <<>> /\ argv_files(argv) # <<>>
                       THEN argv_files(argv)
                       ELSE appFilepaths
    /\ pcTimer' = "process"
    /\ UNCHANGED <<_files, _processed, argv, openBatch, deliveries, atSnapshot,
                   calls, runResult, terminated, encVars, rowVars, runVars>>

\* Lines 414-423: run_processing(filepaths), its exception caught and
\* notified, or the notification that there is no input.
Process ==
    /\ pcTimer = "process"
    /\ IF appFilepaths # <<>>
       THEN /\ calls' = Append(calls, appFilepaths)
            /\ \E o \in run_processing_outcomes(appFilepaths) : runResult' = o
       ELSE /\ runResult' = "no input"
            /\ UNCHANGED calls
    /\ pcTimer' = "terminate"
    /\ UNCHANGED <<_files, _processed, argv, openBatch, deliveries, appFilepaths,
                   atSnapshot, terminated, encVars, rowVars, runVars>>

\* Line 426: NSApp.terminate_(None).
Terminate ==
    /\ pcTimer = "terminate"
    /\ terminated' = TRUE
    /\ pcTimer' = "done"
    /\ UNCHANGED <<_files, _processed, argv, openBatch, deliveries, appFilepaths,
                   atSnapshot, calls, runResult, encVars, rowVars, runVars>>

AppNext ==
    \/ DidFinishLaunching
    \/ OpenFiles
    \/ ExtendNext
    \/ OpenFile
    \/ CheckProcessed
    \/ CopyFiles
    \/ ArgvFallback
    \/ Process
    \/ Terminate

SpecApp == AppInit /\ [][AppNext]_vars

\* C10: run_processing is called at most once, with the files that were in
\* _files when checkAndProcess copied it, or with the existing files of
\* sys.argv when that copy was empty; checkAndProcess ends only by
\* terminating the application, after a call that returned, a call that
\* raised, or no call for want of input.
C10_ProcessedOnceOnSnapshot ==
    LET existing == SelectSeq(argv, LAMBDA p : FS[p].exists /\ ~FS[p].dir)
        input == IF atSnapshot # <<>> THEN atSnapshot ELSE existing
    IN  /\ Len(calls) <= 1
        /\ calls # <<>> => (calls[1] = input /\ input # <<>>)
        /\ pcTimer \in {"terminate", "done"} =>
              /\ IsPrefix(atSnapshot, _files)
              /\ calls = IF input = <<>> THEN <<>> ELSE <<input>>
              /\ runResult \in (IF input = <<>> THEN {"no input"} ELSE {"returned", "raised"})
        /\ pcTimer # "returned"
        /\ terminated <=> pcTimer = "done"

\* C10, witness: a file arrived after the copy and was not processed; the
\* call raised and the application was terminated.
C10_Witness ==
    /\ terminated
    /\ atSnapshot # <<>>
    /\ Len(_files) > Len(atSnapshot)
    /\ calls = <<atSnapshot>>
    /\ runResult = "raised"

====
